---------------------------- MODULE Spec2Model ----------------------------
(***************************************************************************)
(* Difference-map phase retrieval (skxray/cdi.py).                         *)
(*                                                                         *)
(* Arrays are functions over the index tuples of a shape.  Real numbers    *)
(* are held in fixed point: the integer v stands for v / Unit.  The driver *)
(* is modelled on a 2 x 2 grid, where sqrt(size) = 2 and the centred DFT   *)
(* has the real kernel (-1)^(i*k), so that every value the loop computes   *)
(* from the modelled inputs is a dyadic rational that the fixed point (and *)
(* a float) holds exactly.  Two idealisations are made and named where     *)
(* they occur: offset_v = 1e-12 of pi_modulus is below the resolution, and *)
(* a norm ratio sqrt(a)/sqrt(b) is kept as the pair of squared norms.      *)
(***************************************************************************)
EXTENDS Integers, Sequences, FiniteSets, TLC

VARIABLES
    args,            \* the call's arguments as they were at entry
    errstate,        \* numpy's floating-point error mode: "warn" or "raise"
    pc,              \* "call", "loop", "returned", "raised", or a harness state
    sample_obj,      \* the caller's object array (updated in place, line 386)
    sup,             \* the name sup of cdi_recon (rebound at line 396)
    diffracted_pattern,
    sup_out_index,
    obj_error, diff_error, sup_error,
    sup_old, obj_avg, avg_i,
    n,               \* the loop variable: index of the next iteration
    result,          \* what cdi_recon returned
    updates,         \* history: number of executions of line 386
    fired,           \* history: iterations at which find_support was called
    obj_hist,        \* history: the object after the update of each iteration
    sup_hist,        \* history: the support in effect in each iteration
    idx_hist,        \* history: the index both projections of each iteration used
    op_in, op_out    \* input and output of a pure function under test

vars == <<args, errstate, pc, sample_obj, sup, diffracted_pattern,
          sup_out_index, obj_error, diff_error, sup_error, sup_old, obj_avg,
          avg_i, n, result, updates, fired, obj_hist, sup_hist, idx_hist,
          op_in, op_out>>

-----------------------------------------------------------------------------
(* Bounds of the model.                                                    *)

\* n_iterations ranges over -1 .. MaxIterations
MaxIterations == 4
\* sw_step ranges over 1 .. MaxStep
MaxStep == 2
\* axis lengths of generate_box_support range over 1 .. MaxAxis
MaxAxis == 3
\* radii of generate_box_support range over 0 .. MaxRadius
MaxRadius == 5

\* fixed-point resolution: v stands for v / Unit
Unit == 2 * 2 * 2

-----------------------------------------------------------------------------
(* Arrays.                                                                 *)

RECURSIVE SumSet(_, _)
SumSet(S, f) ==
    IF S = {} THEN 0
    ELSE LET x == CHOOSE y \in S : TRUE IN f[x] + SumSet(S \ {x}, f)

RECURSIVE Prod(_, _)
Prod(shape, k) == IF k = 0 THEN 1 ELSE shape[k] * Prod(shape, k - 1)

Size(shape) == Prod(shape, Len(shape))

Grid(shape) ==
    {p \in [1..Len(shape) -> 0..(MaxAxis - 1)] : \A k \in 1..Len(shape) : p[k] < shape[k]}

Shape(arr) ==
    LET dims == Len(CHOOSE p \in DOMAIN arr : TRUE)
    IN  [k \in 1..dims |-> 1 + CHOOSE m \in 0..(MaxAxis - 1) :
            /\ \E p \in DOMAIN arr : p[k] = m
            /\ \A p \in DOMAIN arr : p[k] <= m]

Abs(v) == IF v < 0 THEN -v ELSE v

Sgn(v) == IF v > 0 THEN 1 ELSE IF v < 0 THEN -1 ELSE 0

\* a / b for an exact quotient; no value when b does not divide a
Quot(a, b) == CHOOSE q \in {a \div b} : q * b = a

ISqrt(v) == CHOOSE r \in 0..v : r * r = v

Zeros(shape) == [p \in Grid(shape) |-> 0]

ArrAbs(x) == [p \in DOMAIN x |-> Abs(x[p])]

SumSq(x) == SumSet(DOMAIN x, [p \in DOMAIN x |-> x[p] * x[p]])


Frac(a, b) == [num |-> a, den |-> b]

\* A float argument is the float64 nearest to num / den, and f * m is the float64
\* nearest to the product of that float and m.  The operators below give the order
\* of an integer k and this product without leaving small integers.

\* the b with 2^b <= p / q < 2^(b + 1), for p, q > 0
RECURSIVE Exp2(_, _)
Exp2(p, q) ==
    IF p >= 2 * q THEN Exp2(p, 2 * q) + 1
    ELSE IF p < q THEN Exp2(2 * p, q) - 1
    ELSE 0

RECURSIVE Pow2(_)
Pow2(e) == IF e <= 0 THEN 1 ELSE 2 * Pow2(e - 1)

\* (r * 2^s) mod q
RECURSIVE ShiftMod(_, _, _)
ShiftMod(r, s, q) == IF s = 0 THEN r ELSE ShiftMod((2 * r) % q, s - 1, q)

\* float64(p / q) - p / q = sign * rem / (q * 2^(52 - exp)) for p, q > 0: the
\* quotient is cut to a 53-bit significand, round to nearest, ties to even
FloatRound(p, q) ==
    LET b    == Exp2(p, q)
        r    == ShiftMod(p % q, 52 - b, q)
        half == ShiftMod(p % q, 51 - b, q)
        odd  == ((2 * half) \div q) % 2 = 1
    IN  IF r = 0 THEN [sign |-> 0, rem |-> 0, exp |-> b]
        ELSE IF 2 * r < q \/ (2 * r = q /\ ~odd) THEN [sign |-> -1, rem |-> r, exp |-> b]
        ELSE [sign |-> 1, rem |-> q - r, exp |-> b]

\* the sign of k - float64(float64(p / q) * m) for p, q, m > 0.  Away from the
\* exact product the rounding is too small to change the order; at k = p * m / q
\* the product is k unless the error of p / q, times m, passes half the gap
\* between k and its float64 neighbour on that side.
ProductCmp(k, p, q, m) ==
    IF k * q # p * m THEN Sgn(k * q - p * m)
    ELSE LET d == FloatRound(p, q)
             a == Exp2(k, 1)
             e == a - d.exp - 1 - (IF d.sign < 0 /\ k = Pow2(a) THEN 1 ELSE 0)
         IN  IF d.sign = 0 \/ d.rem * m * Pow2(-e) <= q * Pow2(e) THEN 0 ELSE -d.sign

\* the sign of k - f * m as the code's float product gives it
FloatCmp(k, f, m) ==
    LET s == Sgn(f.num) * Sgn(m)
    IN  IF s = 0 THEN Sgn(k)
        ELSE IF s > 0 THEN ProductCmp(k, Abs(f.num), f.den, Abs(m))
        ELSE IF k >= 0 THEN 1
        ELSE -ProductCmp(-k, Abs(f.num), f.den, Abs(m))

\* k >= f * m
GeqProd(k, f, m) == FloatCmp(k, f, m) >= 0

\* k > f * m
GtProd(k, f, m) == FloatCmp(k, f, m) > 0

\* k <= f * m
LeqProd(k, f, m) == FloatCmp(k, f, m) <= 0

-----------------------------------------------------------------------------
(* Centred Fourier transform pair, for axes of length 1 or 2.              *)

\* np.fft.fftshift: roll every axis by s // 2
fftshift(x) ==
    LET shape == Shape(x)
    IN  [p \in DOMAIN x |->
            x[[k \in 1..Len(shape) |-> (p[k] - (shape[k] \div 2)) % shape[k]]]]

\* np.fft.ifftshift: roll every axis by -(s // 2)
ifftshift(x) ==
    LET shape == Shape(x)
    IN  [p \in DOMAIN x |->
            x[[k \in 1..Len(shape) |-> (p[k] + (shape[k] \div 2)) % shape[k]]]]

\* exp(-2 pi i e / s) for s in {1, 2}
Twiddle(s, e) == IF s = 1 \/ e % 2 = 0 THEN 1 ELSE -1

RECURSIVE Kernel(_, _, _, _)
Kernel(shape, p, q, k) ==
    IF k = 0 THEN 1 ELSE Twiddle(shape[k], p[k] * q[k]) * Kernel(shape, p, q, k - 1)

\* np.fft.fftn
fftn(x) ==
    LET shape == Shape(x)
    IN  [q \in DOMAIN x |->
            SumSet(DOMAIN x, [p \in DOMAIN x |-> x[p] * Kernel(shape, p, q, Len(shape))])]

\* np.fft.ifftn
ifftn(x) ==
    LET shape == Shape(x)
    IN  [q \in DOMAIN x |->
            Quot(SumSet(DOMAIN x, [p \in DOMAIN x |-> x[p] * Kernel(shape, p, q, Len(shape))]),
                 Size(shape))]

fft_helper(x) == ifftshift(fftn(fftshift(x)))

ifft_helper(x) == ifftshift(ifftn(fftshift(x)))

-----------------------------------------------------------------------------
(* Operators of the difference map.                                        *)

\* np.sqrt(np.size(x)); the modelled sizes are squares
SqrtSize(x) == ISqrt(Size(Shape(x)))

\* offset_v = 1e-12 is below the resolution: v / (|v| + offset_v) is the sign of v
pi_modulus(recon_pattern, pattern) ==
    LET diff_tmp == [p \in DOMAIN recon_pattern |->
                        Quot(fft_helper(recon_pattern)[p], SqrtSize(recon_pattern))]
        index    == [p \in DOMAIN pattern |-> pattern[p] > 0]
        imposed  == [p \in DOMAIN diff_tmp |->
                        IF index[p] THEN pattern[p] * Sgn(diff_tmp[p]) ELSE diff_tmp[p]]
    IN  [p \in DOMAIN imposed |-> ifft_helper(imposed)[p] * SqrtSize(pattern)]

\* scipy's gaussian_filter skips an axis whose sigma is <= 1e-15 and builds a kernel
\* of radius int(4 * sigma + 0.5); a kernel of radius 0 is [1.0].  Larger radii
\* have irrational weights and are outside the modelled inputs.
gaussian_radius(sigma) ==
    IF sigma.num <= 0 THEN 0 ELSE (8 * sigma.num + sigma.den) \div (2 * sigma.den)

gaussian_filter(x, sigma) ==
    CASE gaussian_radius(sigma) = 0 -> x

find_support(obj, sw_sigma, sw_threshold) ==
    LET mag      == ArrAbs(obj)
        conv_fun == gaussian_filter(mag, sw_sigma)
        conv_max == CHOOSE m \in {conv_fun[p] : p \in DOMAIN conv_fun} :
                        \A p \in DOMAIN conv_fun : conv_fun[p] <= m
        s_index  == [p \in DOMAIN conv_fun |-> GeqProd(conv_fun[p], sw_threshold, conv_max)]
    IN  [p \in DOMAIN obj |-> IF s_index[p] THEN 1 ELSE 0]

\* mutant of pi_support_call: np.asarray in place of np.array, line 184 cuts the
\* caller's array
pi_support_aliased(obj, index_v) ==
    LET cut == [p \in DOMAIN obj |-> IF index_v[p] THEN 0 ELSE obj[p]]
    IN  [arg |-> cut, ret |-> cut]

\* The call pi_support(sample_obj, index_v): arg is the caller's array after the
\* call, ret the returned array.  np.array copies, so the assignment of line 184
\* reaches the copy alone.
pi_support_call(obj, index_v) ==
    LET copy == obj
    IN  [arg |-> obj,
         ret |-> [p \in DOMAIN copy |-> IF index_v[p] THEN 0 ELSE copy[p]]]

pi_support(obj, index_v) == pi_support_call(obj, index_v).ret

\* The float np.linalg.norm(x_new - x_old) / np.linalg.norm(x_old), kept as the
\* squared norms: the value is sqrt(nsq / dsq); dsq = 0 is a division by zero.
cal_relative_error(x_old, x_new) ==
    [nsq |-> SumSq([p \in DOMAIN x_old |-> x_new[p] - x_old[p]]),
     dsq |-> SumSq(x_old)]

cal_diff_error(obj, pattern) ==
    LET new_diff == [p \in DOMAIN obj |-> Quot(Abs(fft_helper(obj)[p]), SqrtSize(obj))]
    IN  cal_relative_error(pattern, new_diff)

\* a float quotient whose divisor is zero: nan or inf under "warn", an exception
\* (FloatingPointError) under "raise"
DivByZero(e) == e.dsq = 0

FloatZero == [nsq |-> 0, dsq |-> 1]

\* Python's slice(start, stop) on an axis of length s
SliceStart(v, s) == IF v < 0 THEN (IF v + s < 0 THEN 0 ELSE v + s) ELSE (IF v > s THEN s ELSE v)

SliceIndices(start, stop, s) ==
    {i \in 0..(s - 1) : SliceStart(start, s) <= i /\ i < SliceStart(stop, s)}

generate_box_support(sup_radius, shape_v) ==
    LET slc_list == [k \in 1..Len(shape_v) |->
                        SliceIndices((shape_v[k] \div 2) - sup_radius,
                                     (shape_v[k] \div 2) + sup_radius, shape_v[k])]
    IN  [p \in Grid(shape_v) |->
            IF \A k \in 1..Len(shape_v) : p[k] \in slc_list[k] THEN 1 ELSE 0]

-----------------------------------------------------------------------------
(* cdi_recon: the pieces of one iteration.                                 *)

\* (1 + g) * a - g * x, elementwise, for g = 1/beta or -1/beta
Mix(g, a, x) ==
    [p \in DOMAIN a |-> Quot((g.den + g.num) * a[p] - g.num * x[p], g.den)]

\* A string is the sequence of its characters.  Lines 373 and 383 use lower() only
\* in the test pi_modulus_flag.lower() == 'real'; the characters that lower() takes
\* to r, e, a and l are these letters and their capitals, and no others.
RealSpellings == <<{"r", "R"}, {"e", "E"}, {"a", "A"}, {"l", "L"}>>

\* pi_modulus_flag.lower() == 'real'
lower_is_real(flag) ==
    /\ Len(flag) = Len(RealSpellings)
    /\ \A i \in 1..Len(RealSpellings) : flag[i] \in RealSpellings[i]

\* lines 372-374 and 382-384
modulus_step(x, pattern, flag) ==
    IF lower_is_real(flag) THEN ArrAbs(pi_modulus(x, pattern)) ELSE pi_modulus(x, pattern)

\* lines 372-386: the value of sample_obj after the in-place update
dm_update(obj, pattern, index_v, beta, flag) ==
    LET gamma_1 == Frac(-beta.den, beta.num)
        gamma_2 == Frac(beta.den, beta.num)
        obj_a   == pi_support(Mix(gamma_2, modulus_step(obj, pattern, flag), obj), index_v)
        obj_b   == modulus_step(Mix(gamma_1, pi_support(obj, index_v), obj), pattern, flag)
    IN  [p \in DOMAIN obj |-> obj[p] + Quot(beta.num * (obj_a[p] - obj_b[p]), beta.den)]

\* mutant of loop_continues: the loop leaves one pass early
loop_stops_early(k, n_iterations) == k + 1 < n_iterations

\* line 369: range(n_iterations) yields k
loop_continues(k, n_iterations) == k < n_iterations

\* mutant of sw_due: the end of the window is exclusive
sw_due_exclusive_end(a, k) ==
    /\ a.sw_flag
    /\ GeqProd(k, a.sw_start, a.n_iterations)
    /\ ~GeqProd(k, a.sw_end, a.n_iterations)
    /\ k % a.sw_step = 0

\* lines 392-394
sw_due(a, k) ==
    /\ a.sw_flag
    /\ GeqProd(k, a.sw_start, a.n_iterations)
    /\ LeqProd(k, a.sw_end, a.n_iterations)
    /\ k % a.sw_step = 0

\* line 357 and line 397
support_out(s) == [p \in DOMAIN s |-> s[p] < 1]

\* np.sum of a support
CountOn(s) == SumSet(DOMAIN s, s)

\* mutant of shrinkwrap: the index is regenerated from the support being replaced
shrinkwrap_stale_index(obj, a, prev_sup_old) ==
    LET new_sup == find_support(obj, a.sw_sigma, a.sw_threshold)
    IN  [sup           |-> new_sup,
         sup_out_index |-> support_out(prev_sup_old),
         sup_error_n   |-> CountOn(prev_sup_old),
         sup_old       |-> new_sup]

\* lines 396-399, from the object after the update
shrinkwrap(obj, a, prev_sup_old) ==
    LET new_sup == find_support(obj, a.sw_sigma, a.sw_threshold)
    IN  [sup           |-> new_sup,
         sup_out_index |-> support_out(new_sup),
         sup_error_n   |-> CountOn(prev_sup_old),
         sup_old       |-> new_sup]

\* mutant of avg_due: the iteration at start_avg * n_iterations contributes
avg_due_inclusive(a, k) == GeqProd(k, a.start_avg, a.n_iterations)

\* line 401
avg_due(a, k) == GtProd(k, a.start_avg, a.n_iterations)

Put(f, k, v) == [i \in DOMAIN f \cup {k} |-> IF i = k THEN v ELSE f[i]]

None == <<>>

-----------------------------------------------------------------------------
(* cdi_recon as a state machine.                                           *)

DriverIdle ==
    /\ diffracted_pattern = None /\ sample_obj = None /\ sup = None
    /\ sup_out_index = None /\ obj_error = None /\ diff_error = None
    /\ sup_error = None /\ sup_old = None /\ obj_avg = None /\ avg_i = 0
    /\ n = 0 /\ result = None /\ updates = 0 /\ fired = {}
    /\ obj_hist = None /\ sup_hist = None /\ idx_hist = None
    /\ args = None /\ errstate = "warn"

UNCHANGED_locals ==
    UNCHANGED <<sup, diffracted_pattern, sup_out_index, obj_error, diff_error,
                sup_error, sup_old, obj_avg, avg_i, n, result>>

\* lines 351-366; np.zeros of a negative length raises ValueError at line 360
Enter ==
    /\ pc = "call"
    /\ IF args.n_iterations < 0
       THEN /\ pc' = "raised"
            /\ UNCHANGED_locals
       ELSE /\ pc' = "loop"
            /\ diffracted_pattern' = diffracted_pattern
            /\ sup_out_index' = support_out(sup)
            /\ obj_error' = [i \in 0..(args.n_iterations - 1) |-> FloatZero]
            /\ diff_error' = [i \in 0..(args.n_iterations - 1) |-> FloatZero]
            /\ sup_error' = [i \in 0..(args.n_iterations - 1) |-> 0]
            /\ sup_old' = Zeros(Shape(diffracted_pattern))
            /\ obj_avg' = Zeros(Shape(diffracted_pattern))
            /\ avg_i' = 0
            /\ n' = 0
            /\ UNCHANGED <<sup, result>>
    /\ UNCHANGED <<args, errstate, sample_obj, updates, fired, obj_hist, sup_hist,
                   idx_hist, op_in, op_out>>

\* lines 369-406: one pass of the loop body
Iterate ==
    /\ pc = "loop"
    /\ loop_continues(n, args.n_iterations)
    /\ LET new_obj == dm_update(sample_obj, diffracted_pattern, sup_out_index,
                                args.beta, args.pi_modulus_flag)
           e_obj   == cal_relative_error(sample_obj, new_obj)
           e_diff  == cal_diff_error(new_obj, diffracted_pattern)
           sw      == shrinkwrap(new_obj, args, sup_old)
       IN  /\ sample_obj' = new_obj
           /\ updates' = updates + 1
           /\ obj_hist' = Put(obj_hist, n, new_obj)
           /\ sup_hist' = Put(sup_hist, n, sup)
           /\ idx_hist' = Put(idx_hist, n, sup_out_index)
           /\ IF errstate = "raise" /\ DivByZero(e_obj)
              THEN \* line 389 raises FloatingPointError
                   /\ pc' = "raised"
                   /\ UNCHANGED fired
                   /\ UNCHANGED_locals
              ELSE IF errstate = "raise" /\ DivByZero(e_diff)
              THEN \* line 390 raises FloatingPointError
                   /\ pc' = "raised"
                   /\ obj_error' = Put(obj_error, n, e_obj)
                   /\ UNCHANGED <<fired, sup, diffracted_pattern, sup_out_index,
                                  diff_error, sup_error, sup_old, obj_avg, avg_i,
                                  n, result>>
              ELSE /\ pc' = "loop"
                   /\ obj_error' = Put(obj_error, n, e_obj)
                   /\ diff_error' = Put(diff_error, n, e_diff)
                   /\ IF sw_due(args, n)
                      THEN /\ sup' = sw.sup
                           /\ sup_out_index' = sw.sup_out_index
                           /\ sup_error' = Put(sup_error, n, sw.sup_error_n)
                           /\ sup_old' = sw.sup_old
                           /\ fired' = fired \cup {n}
                      ELSE UNCHANGED <<sup, sup_out_index, sup_error, sup_old, fired>>
                   /\ IF avg_due(args, n)
                      THEN /\ obj_avg' = [p \in DOMAIN obj_avg |-> obj_avg[p] + new_obj[p]]
                           /\ avg_i' = avg_i + 1
                      ELSE UNCHANGED <<obj_avg, avg_i>>
                   /\ n' = n + 1
                   /\ UNCHANGED <<diffracted_pattern, result>>
    /\ UNCHANGED <<args, errstate, op_in, op_out>>

\* lines 408-419: obj_avg / avg_i is kept as the pair; avg_i = 0 divides 0j by
\* zero, which is nan under "warn" and FloatingPointError under "raise"
Finish ==
    /\ pc = "loop"
    /\ ~loop_continues(n, args.n_iterations)
    /\ IF errstate = "raise" /\ avg_i = 0
       THEN /\ pc' = "raised"
            /\ UNCHANGED result
       ELSE /\ pc' = "returned"
            /\ result' = [obj_avg    |-> [sum |-> obj_avg, count |-> avg_i],
                          error_dict |-> [obj_error  |-> obj_error,
                                          diff_error |-> diff_error,
                                          sup_error  |-> sup_error]]
    /\ UNCHANGED <<args, errstate, sample_obj, sup, diffracted_pattern,
                   sup_out_index, obj_error, diff_error, sup_error, sup_old,
                   obj_avg, avg_i, n, updates, fired, obj_hist, sup_hist, idx_hist,
                   op_in, op_out>>

-----------------------------------------------------------------------------
(* The calls the model makes.                                              *)

DriverShape == <<2, 2>>

Arr(a, b, c, d) ==
    [p \in Grid(DriverShape) |->
        CASE p = <<0, 0>> -> a [] p = <<0, 1>> -> b [] p = <<1, 0>> -> c [] OTHER -> d]

Real(x) == [p \in DOMAIN x |-> x[p] * Unit]

\* Inputs on which no Fourier component that pi_modulus rescales cancels to zero
\* (where offset_v would decide the float result) other than for an all-zero array.
Patterns == {Real(Arr(0, 0, 0, 0)), Real(Arr(5, 5, 8, 8))}

Objects == {Real(Arr(0, 0, 0, 0)), Real(Arr(1, 0, 0, 0)), Real(Arr(3, 0, 1, 0))}

Supports == {generate_box_support(r, DriverShape) : r \in 0..1}
                \cup {Arr(1, 0, 0, 0), Arr(1, 1, 0, 0)}

\* 'Complex', 'Real', 'REAL' and 'Reel'
Flags ==
    {<<"C", "o", "m", "p", "l", "e", "x">>, <<"R", "e", "a", "l">>,
     <<"R", "E", "A", "L">>, <<"R", "e", "e", "l">>}

\* the default call of the model; the families below vary it
BaseCall ==
    [diffracted_pattern |-> Real(Arr(5, 5, 8, 8)),
     sample_obj         |-> Real(Arr(3, 0, 1, 0)),
     sup                |-> Arr(1, 1, 0, 0),
     beta               |-> Frac(1, 1),
     start_avg          |-> Frac(0, 1),
     pi_modulus_flag    |-> <<"C", "o", "m", "p", "l", "e", "x">>,
     sw_flag            |-> TRUE,
     sw_sigma           |-> Frac(1, 10),
     sw_threshold       |-> Frac(1, 2),
     sw_start           |-> Frac(0, 1),
     sw_end             |-> Frac(1, 1),
     sw_step            |-> 1,
     n_iterations       |-> MaxIterations]

\* every array input and both mixing modes, on the default schedule
ArrayCalls ==
    {[BaseCall EXCEPT !.diffracted_pattern = d, !.sample_obj = o, !.sup = s,
                      !.beta = b, !.pi_modulus_flag = f] :
        d \in Patterns, o \in Objects, s \in Supports,
        b \in {Frac(1, 1), Frac(2, 1)}, f \in Flags}

\* every schedule, on the default arrays
ScheduleCalls ==
    {[BaseCall EXCEPT !.sw_flag = w[1], !.sw_sigma = w[2], !.sw_start = w[3],
                      !.sw_end = w[4], !.sw_step = w[5], !.start_avg = w[6],
                      !.n_iterations = w[7]] :
        w \in BOOLEAN \X {Frac(0, 1), Frac(1, 10)} \X {Frac(0, 1), Frac(1, 2)}
              \X {Frac(1, 4), Frac(1, 1)} \X (1..MaxStep)
              \X {Frac(0, 1), Frac(1, 2), Frac(1, 1)} \X (-1..MaxIterations)}

\* the schedule of the documented example: 0.2 * 100 and 0.8 * 100 are the floats
\* 20.0 and 80.0
ExampleCall ==
    [BaseCall EXCEPT !.sw_start = Frac(2, 10), !.sw_end = Frac(8, 10),
                     !.sw_step = 10, !.start_avg = Frac(8, 10),
                     !.n_iterations = 100]

\* fractions whose float product with 100 is not the exact product:
\* 0.07 * 100 = 7.000000000000001 and 0.29 * 100 = 28.999999999999996
RoundingCall ==
    [BaseCall EXCEPT !.sw_start = Frac(7, 100), !.sw_end = Frac(29, 100),
                     !.start_avg = Frac(29, 100), !.n_iterations = 100]

RoundingCalls == {RoundingCall, [RoundingCall EXCEPT !.start_avg = Frac(7, 100)]}

Calls == ArrayCalls \cup ScheduleCalls \cup {ExampleCall} \cup RoundingCalls

Init ==
    /\ args \in Calls
    /\ errstate \in {"warn", "raise"}
    /\ pc = "call"
    /\ sample_obj = args.sample_obj
    /\ sup = args.sup
    /\ diffracted_pattern = args.diffracted_pattern
    /\ sup_out_index = None /\ obj_error = None /\ diff_error = None
    /\ sup_error = None /\ sup_old = None /\ obj_avg = None /\ avg_i = 0
    /\ n = 0 /\ result = None /\ updates = 0 /\ fired = {}
    /\ obj_hist = None /\ sup_hist = None /\ idx_hist = None
    /\ op_in = None /\ op_out = None

Next == Enter \/ Iterate \/ Finish

Spec == Init /\ [][Next]_vars

-----------------------------------------------------------------------------
(* The pure functions, each applied to inputs drawn at Init.               *)

BoxShapes ==
    {<<s>> : s \in 1..MaxAxis} \cup {<<s, t>> : s \in 1..MaxAxis, t \in 1..MaxAxis}

InitBox ==
    /\ DriverIdle
    /\ pc = "box"
    /\ op_in \in [sup_radius : 0..MaxRadius, shape_v : BoxShapes]
    /\ op_out = None

ApplyBox ==
    /\ pc = "box"
    /\ pc' = "box_done"
    /\ op_out' = generate_box_support(op_in.sup_radius, op_in.shape_v)
    /\ UNCHANGED <<args, errstate, sample_obj, updates, fired, obj_hist, sup_hist,
                   idx_hist, op_in>>
    /\ UNCHANGED_locals

SpecBox == InitBox /\ [][ApplyBox]_vars

InitPiSupport ==
    /\ DriverIdle
    /\ pc = "pi"
    /\ op_in \in [obj     : [Grid(DriverShape) -> {-Unit, 0, Unit}],
                  index_v : [Grid(DriverShape) -> BOOLEAN]]
    /\ op_out = None

\* r = pi_support(obj, index_v)
ApplyPiSupport ==
    /\ pc = "pi"
    /\ pc' = "pi_once"
    /\ LET call == pi_support_call(op_in.obj, op_in.index_v)
       IN  op_out' = [obj |-> call.arg, once |-> call.ret, twice |-> None]
    /\ UNCHANGED <<args, errstate, sample_obj, updates, fired, obj_hist, sup_hist,
                   idx_hist, op_in>>
    /\ UNCHANGED_locals

\* pi_support(r, index_v)
ApplyPiSupportAgain ==
    /\ pc = "pi_once"
    /\ pc' = "pi_twice"
    /\ LET call == pi_support_call(op_out.once, op_in.index_v)
       IN  op_out' = [obj |-> op_out.obj, once |-> call.arg, twice |-> call.ret]
    /\ UNCHANGED <<args, errstate, sample_obj, updates, fired, obj_hist, sup_hist,
                   idx_hist, op_in>>
    /\ UNCHANGED_locals

SpecPiSupport == InitPiSupport /\ [][ApplyPiSupport \/ ApplyPiSupportAgain]_vars

-----------------------------------------------------------------------------
(* Properties.                                                             *)

\* cdi_recon has allocated its arrays (line 366 was passed)
Started == pc \in {"loop", "returned"} \/ (pc = "raised" /\ args.n_iterations >= 0)

Length(f) == Cardinality(DOMAIN f)

\* C1: a call with n_iterations = K >= 1 that returns has made exactly K updates
\* and each error sequence has length K; an error value (nan, inf) never ends the
\* loop: the only way out before pass K is an exception that numpy raises in
\* error mode "raise".
C1_IterationBudget ==
    /\ pc = "loop" => updates = n /\ n <= args.n_iterations
    /\ (pc = "returned" /\ args.n_iterations >= 1) =>
          /\ updates = args.n_iterations
          /\ Length(result.error_dict.obj_error) = args.n_iterations
          /\ Length(result.error_dict.diff_error) = args.n_iterations
          /\ Length(result.error_dict.sup_error) = args.n_iterations
    /\ (pc = "raised" /\ args.n_iterations >= 1) => errstate = "raise"

\* a full run that went on after recording a nan object error
C1_Witness ==
    /\ pc = "returned"
    /\ args.n_iterations = MaxIterations
    /\ updates = MaxIterations
    /\ DivByZero(result.error_dict.obj_error[0])

\* the window's ends are the float products sw_start * n_iterations and
\* sw_end * n_iterations
InWindow(k) ==
    /\ args.sw_flag
    /\ FloatCmp(k, args.sw_start, args.n_iterations) >= 0
    /\ FloatCmp(k, args.sw_end, args.n_iterations) <= 0
    /\ k % args.sw_step = 0

ExampleFirings == {20, 30, 40, 50, 60, 70, 80}

\* C2: find_support is called at iteration k iff sw_flag holds, k lies in
\* [sw_start * n_iterations, sw_end * n_iterations] (both ends included, the
\* products being the floats the code computes) and k mod sw_step = 0; sup_error
\* is non-zero only at such k; with 0.2, 0.8, 10 and 100 iterations the firings
\* are 20, 30, ..., 80; with 0.07, 0.29, 1 and 100 iterations they are 8, ..., 28,
\* the products being 7.000000000000001 and 28.999999999999996.
C2_ShrinkwrapSchedule ==
    Started =>
        /\ fired \subseteq 0..(n - 1)
        /\ \A k \in 0..(n - 1) :
              /\ k \in fired <=> InWindow(k)
              /\ sup_error[k] # 0 => k \in fired
        /\ (args = ExampleCall /\ pc = "returned") => fired = ExampleFirings
        /\ (args \in RoundingCalls /\ pc = "returned") => fired = 8..28

C2_Witness ==
    /\ args = ExampleCall
    /\ pc = "returned"
    /\ fired = ExampleFirings
    /\ sup_error[80] # 0
    /\ sup_error[81] = 0

\* C3: where shrinkwrap fires, sup_error[k] is the "on" count of the support that
\* was in effect in iteration k (the caller's support at the first firing);
\* elsewhere it is 0.
C3_PreviousSupportSize ==
    Started =>
        \A k \in 0..(n - 1) :
            sup_error[k] = IF k \in fired THEN CountOn(sup_hist[k]) ELSE 0

\* the threshold is the float product start_avg * n_iterations
Contributing(m) ==
    {k \in 0..(m - 1) : FloatCmp(k, args.start_avg, args.n_iterations) > 0}

SumOfObjects(S) ==
    [p \in Grid(DriverShape) |-> SumSet(S, [k \in S |-> obj_hist[k][p]])]

\* C4: the accumulator holds the sum of the post-update objects of exactly the
\* iterations k < n with k > start_avg * n_iterations (the product being the float
\* the code computes), avg_i is their number, and the returned object is that sum
\* over that number; with start_avg = 0.29 and 100 iterations the product is
\* 28.999999999999996 and iterations 29..99 contribute, with 0.07 it is
\* 7.000000000000001 and iterations 8..99 do.
C4_RunningAverage ==
    /\ Started =>
          /\ avg_i = Cardinality(Contributing(n))
          /\ obj_avg = SumOfObjects(Contributing(n))
    /\ (pc = "returned" /\ args.n_iterations >= 0) =>
          result.obj_avg = [sum   |-> SumOfObjects(Contributing(args.n_iterations)),
                            count |-> Cardinality(Contributing(args.n_iterations))]
    /\ (pc = "returned" /\ args = RoundingCall) => result.obj_avg.count = 71
    /\ (pc = "returned" /\ args \in RoundingCalls \ {RoundingCall}) =>
          result.obj_avg.count = 92

\* iteration 2 = 0.5 * 4 is left out, iteration 3 is the one contribution
C4_Witness ==
    /\ pc = "returned"
    /\ args.n_iterations = 4
    /\ args.start_avg = Frac(1, 2)
    /\ result.obj_avg.count = 1
    /\ result.obj_avg.sum = obj_hist[3]
    /\ obj_hist[3] # obj_hist[2]

FracLess(f, g) == f.num * g.den < g.num * f.den

InvalidConfiguration ==
    \/ args.sw_sigma.num <= 0
    \/ args.n_iterations <= 0
    \/ args.start_avg.num >= args.start_avg.den
    \/ FracLess(args.sw_end, args.sw_start)

\* C5: a call with an invalid configuration fails before the first iteration: it
\* makes no update, writes no error slot and does not return.
C5_FailFast ==
    InvalidConfiguration =>
        /\ updates = 0
        /\ pc # "returned"
        /\ Started => \A k \in DOMAIN obj_error : obj_error[k] = FloatZero

\* C6: a call whose loop ends with no contribution to the average ends in an error.
C6_EmptyAverageIsAnError == pc = "returned" => result.obj_avg.count # 0

\* C7: a call either completes all its iterations and returns, or fails with the
\* caller's arrays as they were at entry.
C7_AllOrNothing ==
    /\ pc = "returned" => updates = args.n_iterations
    /\ pc = "raised" =>
          /\ sample_obj = args.sample_obj
          /\ diffracted_pattern = args.diffracted_pattern

Projected(obj, index_v) == [p \in DOMAIN obj |-> IF index_v[p] THEN 0 ELSE obj[p]]

\* C8: pi_support returns obj with the entries at index_v set to zero, leaves its
\* argument as it was, and applied to its own result returns that result.
C8_PiSupport ==
    /\ pc \in {"pi_once", "pi_twice"} =>
          /\ op_out.obj = op_in.obj
          /\ op_out.once = Projected(op_in.obj, op_in.index_v)
    /\ pc = "pi_twice" => op_out.twice = op_out.once

C8_Witness ==
    /\ pc = "pi_twice"
    /\ \E p, q \in Grid(DriverShape) :
          /\ op_in.index_v[p] /\ op_in.obj[p] # 0 /\ op_out.twice[p] = 0
          /\ ~op_in.index_v[q] /\ op_out.twice[q] = op_in.obj[q] /\ op_in.obj[q] # 0

\* C9: generate_box_support(r, shape) is 1 exactly at the positions whose index i
\* on every axis of length s has s // 2 - r <= i < s // 2 + r, also when r > s // 2.
C9_BoxIsClippedRectangle ==
    pc = "box_done" =>
        op_out = [p \in Grid(op_in.shape_v) |->
                    IF \A k \in 1..Len(op_in.shape_v) :
                          /\ (op_in.shape_v[k] \div 2) - op_in.sup_radius <= p[k]
                          /\ p[k] < (op_in.shape_v[k] \div 2) + op_in.sup_radius
                    THEN 1 ELSE 0]

OutsideOf(s) == [p \in DOMAIN s |-> s[p] < 1]

\* C10: the index both projections of an iteration use is (support < 1) of the
\* support in effect; that support is the caller's in iteration 0, and in iteration
\* k + 1 it is the one computed from the object after the update of iteration k
\* when shrinkwrap fired at k, and the support of iteration k otherwise.
C10_SupportIndex ==
    Started =>
        /\ sup_out_index = OutsideOf(sup)
        /\ \A k \in DOMAIN idx_hist : idx_hist[k] = OutsideOf(sup_hist[k])
        /\ 0 \in DOMAIN sup_hist => sup_hist[0] = args.sup
        /\ \A k \in DOMAIN sup_hist :
              LET next == IF k + 1 \in DOMAIN sup_hist THEN sup_hist[k + 1] ELSE sup
              IN  (k + 1 \in DOMAIN sup_hist \/ pc # "raised") =>
                     next = IF k \in fired
                            THEN find_support(obj_hist[k], args.sw_sigma, args.sw_threshold)
                            ELSE sup_hist[k]

\* a support computed at iteration k, different from the one before, was used by
\* the projections of iteration k + 1
C10_Witness ==
    /\ Started
    /\ \E k \in fired :
          /\ k + 1 \in DOMAIN sup_hist
          /\ sup_hist[k + 1] # sup_hist[k]
          /\ idx_hist[k + 1] = OutsideOf(sup_hist[k + 1])
          /\ idx_hist[k + 1] # idx_hist[k]

=============================================================================
